---- MODULE Spec2Model ----
(***************************************************************************)
(* A model of webdriver/smoke.py: a straight-line script that drives two   *)
(* headless browser sessions through the webwormhole pairing protocol,     *)
(* sends one file from the first to the second and compares the result.    *)
(*                                                                         *)
(* The script is one control thread; `pc' is the statement it is about to  *)
(* execute.  The application under test and the two browsers are external: *)
(* what they show (status text, code, visibility marker, the downloaded    *)
(* file) changes by the App* actions, interleaved with the script.         *)
(* Strings are sequences of words; files are records of type, modification *)
(* time and content (a sequence of bits, its length being the size).       *)
(***************************************************************************)
EXTENDS Naturals, Sequences, FiniteSets

\* ---- bounds --------------------------------------------------------------
\* polls a WebDriverWait makes before its deadline (10 s at 0.5 s per poll)
MaxPolls == 2
\* bytes in the artifact (the script writes 100<<10 random bytes)
ArtifactSize == 2
\* distinct modification times a file can carry
MaxTime == 1

VARIABLES
  pc,         \* statement the script executes next
  err,        \* exception that is propagating now (kind "none": no exception)
  failure,    \* first exception raised in the run
  indir,      \* the input scratch directory: "none", "exists", "removed"
  outdir,     \* the output scratch directory
  infile,     \* indir/file.bin: NoFile or a file record
  outfile,    \* outdir/file.bin: NoFile or a file record
  driver1,    \* initiator session: "unopened", "open", "quit"
  driver2,    \* responder session
  acts1,      \* calls issued on driver1, in order
  acts2,      \* calls issued on driver2, in order
  info,       \* text of driver1's #info (Absent when there is no element)
  magiccode,  \* value of driver1's #magiccode
  top1,       \* driver1's #top: "absent", "hidden", "visible"
  top2,       \* driver2's #top
  code,       \* the script's variable `code' (NoCode before line 63)
  typed,      \* what was sent to driver2's #magiccode (NoCode when nothing)
  stdout,     \* lines printed after the two directory names
  polls,      \* polls made by the wait in progress
  waits,      \* how each of the three waits ended
  slept,      \* number of time.sleep calls made by the script itself
  cmp,        \* what filecmp.cmp returned: "none", "true", "false"
  writes      \* number of times the application wrote the output file

vars == <<pc, err, failure, indir, outdir, infile, outfile, driver1, driver2,
          acts1, acts2, info, magiccode, top1, top2, code, typed, stdout,
          polls, waits, slept, cmp, writes>>

fsvars  == <<indir, outdir, infile, outfile, writes>>
drvvars == <<driver1, driver2>>
uivars  == <<info, magiccode, top1, top2>>

\* ---- values --------------------------------------------------------------
NoFile == [type |-> "none"]
NoCode == <<"<unset>">>
Absent == <<"<absent>">>
NoErr  == [kind |-> "none", at |-> "none"]
Exc(kind, at) == [kind |-> kind, at |-> at]

Bits  == {0, 1}
Times == 0 .. MaxTime
\* all bit strings of exactly n bits
RECURSIVE BitStrings(_)
BitStrings(n) ==
  IF n = 0 THEN {<<>>}
  ELSE {Append(s, b) : s \in BitStrings(n - 1), b \in Bits}
\* what the application may write as the downloaded file: any content of at
\* most ArtifactSize bytes
RECURSIVE Downloads(_)
Downloads(n) == IF n = 0 THEN BitStrings(0) ELSE BitStrings(n) \cup Downloads(n - 1)

RegFile(t, bytes) == [type |-> "reg", mtime |-> t, bytes |-> bytes]

WaitingFor      == <<"Waiting", "for">>
WaitingForOther == <<"Waiting", "for", "the", "other">>
\* status texts the page can show
InfoTexts ==
  { <<>>,
    <<"Waiting", "for", "the", "other", "side">>,
    <<"Waiting", "for", "signalling">>,
    <<"Still", "Waiting", "for", "the", "other">> }
\* values the code control can hold
MagicCodes == { <<>>, <<"7", "word">> }

\* ---- string functions ----------------------------------------------------
\* the prefix test replaced by the substring test the wait uses
StartsWithAnywhere(s, p) ==
  \E k \in 0 .. Len(s) :
    /\ k + Len(p) <= Len(s)
    /\ \A i \in 1 .. Len(p) : s[k + i] = p[i]

\* str.startswith
StartsWith(s, p) ==
  /\ Len(p) <= Len(s)
  /\ \A i \in 1 .. Len(p) : s[i] = p[i]

\* `sub in s'
Contains(s, sub) ==
  \E k \in 0 .. Len(s) :
    /\ k + Len(sub) <= Len(s)
    /\ \A i \in 1 .. Len(sub) : s[k + i] = sub[i]

\* ---- filecmp.cmp(f1, f2), shallow=True by default ------------------------
Sig(f) == <<f.type, Len(f.bytes), f.mtime>>

DoCmp(f1, f2) == f1.bytes = f2.bytes

FileCmp(f1, f2) ==
  IF Sig(f1)[1] # "reg" \/ Sig(f2)[1] # "reg" THEN FALSE
  ELSE IF Sig(f1) = Sig(f2) THEN TRUE
  ELSE IF Sig(f1)[2] # Sig(f2)[2] THEN FALSE
  ELSE DoCmp(f1, f2)

\* ---- raising -------------------------------------------------------------
\* an exception before the try statement: nothing catches it
RaiseOutside(kind) ==
  /\ err' = Exc(kind, pc)
  /\ failure' = Exc(kind, pc)
  /\ pc' = "exit"

\* the first exception in the try body caught and the protocol started over
RaiseInTryRetryOnce(kind) ==
  IF failure = NoErr
  THEN /\ err' = NoErr
       /\ failure' = Exc(kind, pc)
       /\ pc' = "get1"
  ELSE /\ err' = Exc(kind, pc)
       /\ failure' = failure
       /\ pc' = "quit1"

\* an exception in the try body: control goes to the finally clause
RaiseInTry(kind) ==
  /\ err' = Exc(kind, pc)
  /\ failure' = Exc(kind, pc)
  /\ pc' = "quit1"

\* an exception in the finally clause replaces the propagating one and
\* leaves the clause
RaiseInFinally(kind) ==
  /\ err' = Exc(kind, pc)
  /\ failure' = IF failure = NoErr THEN Exc(kind, pc) ELSE failure
  /\ pc' = "exit"

\* the statement that follows each of the three waits
AfterWaitSkipsResponder(w) ==
  CASE w = "info" -> "assert_info"
    [] w = "paired1" -> "filepicker"
    [] w = "paired2" -> "filepicker"

\* the initiator's wait followed at once by the marker waits, the code
\* exchange left out
AfterWaitSkipsCode(w) ==
  CASE w = "info" -> "find_top1"
    [] w = "paired1" -> "find_top2"
    [] w = "paired2" -> "filepicker"

AfterWait(w) ==
  CASE w = "info" -> "assert_info"
    [] w = "paired1" -> "find_top2"
    [] w = "paired2" -> "filepicker"

\* a wait that ran to its deadline carries on with the next statement
OnTimeoutCarryOn(w) ==
  /\ pc' = AfterWait(w)
  /\ waits' = [waits EXCEPT ![w] = "timeout"]
  /\ polls' = 0
  /\ UNCHANGED <<err, failure>>

\* WebDriverWait.until: the deadline passed and the condition never held
OnTimeout(w) ==
  /\ RaiseInTry("TimeoutException")
  /\ waits' = [waits EXCEPT ![w] = "timeout"]
  /\ polls' = 0

\* outcomes of a driver call on an element looked up by id
ElementCall == {"ok", "NoSuchElementException", "WebDriverException"}
\* outcomes of a driver call that looks up nothing
SessionCall == {"ok", "WebDriverException"}

Init ==
  /\ pc = "indir"
  /\ err = NoErr
  /\ failure = NoErr
  /\ indir = "none"
  /\ outdir = "none"
  /\ infile = NoFile
  /\ outfile = NoFile
  /\ driver1 = "unopened"
  /\ driver2 = "unopened"
  /\ acts1 = <<>>
  /\ acts2 = <<>>
  /\ info = Absent
  /\ magiccode = <<>>
  /\ top1 = "absent"
  /\ top2 = "absent"
  /\ code = NoCode
  /\ typed = NoCode
  /\ stdout = <<>>
  /\ polls = 0
  /\ waits = [w \in {"info", "paired1", "paired2"} |-> "none"]
  /\ slept = 0
  /\ cmp = "none"
  /\ writes = 0

\* ---- lines 26-49: scratch directories, artifact, sessions ----------------
\* indir = tempfile.TemporaryDirectory()
MakeIndir ==
  /\ pc = "indir"
  /\ \E ok \in BOOLEAN :
       IF ok
       THEN /\ indir' = "exists"
            /\ pc' = "outdir"
            /\ UNCHANGED <<err, failure>>
       ELSE /\ RaiseOutside("OSError")
            /\ UNCHANGED indir
  /\ UNCHANGED <<outdir, infile, outfile, writes, drvvars, acts1, acts2,
                 uivars, code, typed, stdout, polls, waits, slept, cmp>>

\* outdir = tempfile.TemporaryDirectory()
MakeOutdir ==
  /\ pc = "outdir"
  /\ \E ok \in BOOLEAN :
       IF ok
       THEN /\ outdir' = "exists"
            /\ pc' = "artifact"
            /\ UNCHANGED <<err, failure>>
       ELSE /\ RaiseOutside("OSError")
            /\ UNCHANGED outdir
  /\ UNCHANGED <<indir, infile, outfile, writes, drvvars, acts1, acts2,
                 uivars, code, typed, stdout, polls, waits, slept, cmp>>

\* with open(fpath, 'wb') as f: f.write(os.urandom(100<<10))
\* a failed write leaves a file that is shorter than the artifact
WriteArtifact ==
  /\ pc = "artifact"
  /\ \E t \in Times :
       \/ /\ \E bytes \in BitStrings(ArtifactSize) : infile' = RegFile(t, bytes)
          /\ pc' = "driver1"
          /\ UNCHANGED <<err, failure>>
       \/ /\ infile' \in {NoFile, RegFile(t, <<>>)}
          /\ RaiseOutside("OSError")
  /\ UNCHANGED <<indir, outdir, outfile, writes, drvvars, acts1, acts2,
                 uivars, code, typed, stdout, polls, waits, slept, cmp>>

\* driver1 = webdriver.Chrome(options=opts)
MakeDriver1 ==
  /\ pc = "driver1"
  /\ \E r \in SessionCall :
       IF r = "ok"
       THEN /\ driver1' = "open"
            /\ pc' = "driver2"
            /\ UNCHANGED <<err, failure>>
       ELSE /\ RaiseOutside(r)
            /\ UNCHANGED driver1
  /\ UNCHANGED <<fsvars, driver2, acts1, acts2, uivars, code, typed, stdout,
                 polls, waits, slept, cmp>>

\* driver2 = webdriver.Chrome(options=opts)
MakeDriver2 ==
  /\ pc = "driver2"
  /\ \E r \in SessionCall :
       IF r = "ok"
       THEN /\ driver2' = "open"
            /\ pc' = "get1"
            /\ UNCHANGED <<err, failure>>
       ELSE /\ RaiseOutside(r)
            /\ UNCHANGED driver2
  /\ UNCHANGED <<fsvars, driver1, acts1, acts2, uivars, code, typed, stdout,
                 polls, waits, slept, cmp>>

\* ---- lines 54-68: the pairing protocol up to the responder's dial --------
rest1 == <<fsvars, drvvars, acts2, uivars, code, typed, stdout, polls, waits,
           slept, cmp>>
rest2 == <<fsvars, drvvars, acts1, uivars, code, typed, stdout, polls, waits,
           slept, cmp>>

\* driver1.get("https://webwormhole.io")
Get1 ==
  /\ pc = "get1"
  /\ acts1' = Append(acts1, "get")
  /\ \E r \in SessionCall :
       IF r = "ok" THEN pc' = "get2" /\ UNCHANGED <<err, failure>>
       ELSE RaiseInTry(r)
  /\ UNCHANGED rest1

\* driver2.get("https://webwormhole.io")
Get2 ==
  /\ pc = "get2"
  /\ acts2' = Append(acts2, "get")
  /\ \E r \in SessionCall :
       IF r = "ok" THEN pc' = "dial1" /\ UNCHANGED <<err, failure>>
       ELSE RaiseInTry(r)
  /\ UNCHANGED rest2

\* driver1.find_element(By.ID, 'dial').click()
Dial1 ==
  /\ pc = "dial1"
  /\ acts1' = Append(acts1, "click dial")
  /\ \E r \in ElementCall :
       IF r = "ok" THEN pc' = "wait_info" /\ UNCHANGED <<err, failure>>
       ELSE RaiseInTry(r)
  /\ UNCHANGED rest1

\* EC.text_to_be_present_in_element((By.ID, "info"), "Waiting for"):
\* a missing or stale element counts as "not yet"
TextPresent(text) == text # Absent /\ Contains(text, WaitingFor)

\* the wait replaced by a single look at the status text whose result is
\* not acted upon
WaitInfoUnchecked ==
  /\ pc = "wait_info"
  /\ acts1' = Append(acts1, "wait info")
  /\ pc' = AfterWait("info")
  /\ waits' = [waits EXCEPT !["info"] =
                 IF TextPresent(info) THEN "satisfied" ELSE "timeout"]
  /\ UNCHANGED <<err, failure, polls, fsvars, drvvars, acts2, uivars, code,
                 typed, stdout, slept, cmp>>

\* the wait polling with no deadline: the count of polls starts over instead
\* of ending the wait
WaitInfoNoDeadline ==
  /\ pc = "wait_info"
  /\ acts1' = IF \E i \in 1 .. Len(acts1) : acts1[i] = "wait info"
              THEN acts1 ELSE Append(acts1, "wait info")
  /\ \E r \in SessionCall :
       IF r # "ok"
       THEN /\ RaiseInTry(r)
            /\ waits' = [waits EXCEPT !["info"] = "error"]
            /\ polls' = 0
       ELSE IF TextPresent(info)
       THEN /\ pc' = AfterWait("info")
            /\ waits' = [waits EXCEPT !["info"] = "satisfied"]
            /\ polls' = 0
            /\ UNCHANGED <<err, failure>>
       ELSE /\ polls' = (polls + 1) % MaxPolls
            /\ UNCHANGED <<pc, err, failure, waits>>
  /\ UNCHANGED <<fsvars, drvvars, acts2, uivars, code, typed, stdout, slept,
                 cmp>>

\* one poll of WebDriverWait(driver1, 10).until(text_to_be_present...)
WaitInfo ==
  /\ pc = "wait_info"
  /\ acts1' = IF polls = 0 THEN Append(acts1, "wait info") ELSE acts1
  /\ \E r \in SessionCall :
       IF r # "ok"
       THEN /\ RaiseInTry(r)
            /\ waits' = [waits EXCEPT !["info"] = "error"]
            /\ polls' = 0
       ELSE IF TextPresent(info)
       THEN /\ pc' = AfterWait("info")
            /\ waits' = [waits EXCEPT !["info"] = "satisfied"]
            /\ polls' = 0
            /\ UNCHANGED <<err, failure>>
       ELSE IF polls + 1 >= MaxPolls
       THEN OnTimeout("info")
       ELSE /\ polls' = polls + 1
            /\ UNCHANGED <<pc, err, failure, waits>>
  /\ UNCHANGED <<fsvars, drvvars, acts2, uivars, code, typed, stdout, slept,
                 cmp>>

\* assert driver1.find_element(By.ID, 'info').text.startswith(
\*   "Waiting for the other")
AssertInfo ==
  /\ pc = "assert_info"
  /\ acts1' = Append(acts1, "text info")
  /\ \/ /\ info = Absent
        /\ RaiseInTry("NoSuchElementException")
     \/ RaiseInTry("WebDriverException")
     \/ /\ info # Absent
        /\ IF StartsWith(info, WaitingForOther)
           THEN pc' = "read_code" /\ UNCHANGED <<err, failure>>
           ELSE RaiseInTry("AssertionError")
  /\ UNCHANGED rest1

\* code = driver1.find_element(By.ID, 'magiccode').get_attribute("value")
ReadCode ==
  /\ pc = "read_code"
  /\ acts1' = Append(acts1, "value magiccode")
  /\ \E r \in ElementCall :
       IF r = "ok"
       THEN /\ code' = magiccode
            /\ pc' = "assert_code"
            /\ UNCHANGED <<err, failure>>
       ELSE /\ RaiseInTry(r)
            /\ UNCHANGED code
  /\ UNCHANGED <<fsvars, drvvars, acts2, uivars, typed, stdout, polls, waits,
                 slept, cmp>>

\* the check of the code's length left out
CodeOkAny(c) == TRUE

\* len(code) != 0
CodeOk(c) == Len(c) # 0

\* assert len(code) != 0
AssertCode ==
  /\ pc = "assert_code"
  /\ IF CodeOk(code)
     THEN pc' = "print_code" /\ UNCHANGED <<err, failure>>
     ELSE RaiseInTry("AssertionError")
  /\ UNCHANGED <<acts1, rest1>>

\* the script without its print of the code
PrintCodeOmitted ==
  /\ pc = "print_code"
  /\ pc' = "type_code"
  /\ UNCHANGED <<err, failure, fsvars, drvvars, acts1, acts2, uivars, code,
                 typed, stdout, polls, waits, slept, cmp>>

\* print(code)
PrintCode ==
  /\ pc = "print_code"
  /\ stdout' = Append(stdout, code)
  /\ pc' = "type_code"
  /\ UNCHANGED <<err, failure, fsvars, drvvars, acts1, acts2, uivars, code,
                 typed, polls, waits, slept, cmp>>

\* the code entry with its errors swallowed: the dial follows in any case
TypeCodeBestEffort ==
  /\ pc = "type_code"
  /\ acts2' = Append(acts2, "send_keys magiccode")
  /\ \E r \in ElementCall :
       /\ typed' = IF r = "ok" THEN code ELSE typed
       /\ pc' = "dial2"
       /\ UNCHANGED <<err, failure>>
  /\ UNCHANGED <<fsvars, drvvars, acts1, uivars, code, stdout, polls, waits,
                 slept, cmp>>

\* driver2.find_element(By.ID, 'magiccode').send_keys(code)
TypeCode ==
  /\ pc = "type_code"
  /\ acts2' = Append(acts2, "send_keys magiccode")
  /\ \E r \in ElementCall :
       IF r = "ok"
       THEN /\ typed' = code
            /\ pc' = "dial2"
            /\ UNCHANGED <<err, failure>>
       ELSE /\ RaiseInTry(r)
            /\ UNCHANGED typed
  /\ UNCHANGED <<fsvars, drvvars, acts1, uivars, code, stdout, polls, waits,
                 slept, cmp>>

\* driver2.find_element(By.ID, 'dial').click()
Dial2 ==
  /\ pc = "dial2"
  /\ acts2' = Append(acts2, "click dial")
  /\ \E r \in ElementCall :
       IF r = "ok" THEN pc' = "find_top1" /\ UNCHANGED <<err, failure>>
       ELSE RaiseInTry(r)
  /\ UNCHANGED rest2

\* ---- lines 70-75: both sides wait for the session-established marker ----
\* driver1.find_element(By.ID, "top"), evaluated before the wait starts
FindTop1 ==
  /\ pc = "find_top1"
  /\ acts1' = Append(acts1, "find top")
  /\ \/ /\ top1 = "absent"
        /\ RaiseInTry("NoSuchElementException")
     \/ RaiseInTry("WebDriverException")
     \/ /\ top1 # "absent"
        /\ pc' = "paired1"
        /\ UNCHANGED <<err, failure>>
  /\ UNCHANGED rest1

\* what one poll of EC.visibility_of(element) gives: the element found
\* before the wait may have left the page since (a stale reference, which
\* the wait does not ignore)
PollVisible(top) ==
  IF top = "absent" THEN "StaleElementReferenceException"
  ELSE IF top = "visible" THEN "yes"
  ELSE "no"

\* one poll of WebDriverWait(driver1, 10).until(EC.visibility_of(top))
WaitPaired1 ==
  /\ pc = "paired1"
  /\ acts1' = IF polls = 0 THEN Append(acts1, "wait top") ELSE acts1
  /\ \E r \in SessionCall :
       IF r # "ok" \/ PollVisible(top1) \notin {"yes", "no"}
       THEN /\ RaiseInTry(IF r # "ok" THEN r ELSE PollVisible(top1))
            /\ waits' = [waits EXCEPT !["paired1"] = "error"]
            /\ polls' = 0
       ELSE IF PollVisible(top1) = "yes"
       THEN /\ pc' = AfterWait("paired1")
            /\ waits' = [waits EXCEPT !["paired1"] = "satisfied"]
            /\ polls' = 0
            /\ UNCHANGED <<err, failure>>
       ELSE IF polls + 1 >= MaxPolls
       THEN OnTimeout("paired1")
       ELSE /\ polls' = polls + 1
            /\ UNCHANGED <<pc, err, failure, waits>>
  /\ UNCHANGED <<fsvars, drvvars, acts2, uivars, code, typed, stdout, slept,
                 cmp>>

\* driver2.find_element(By.ID, "top"), evaluated before the wait starts
FindTop2 ==
  /\ pc = "find_top2"
  /\ acts2' = Append(acts2, "find top")
  /\ \/ /\ top2 = "absent"
        /\ RaiseInTry("NoSuchElementException")
     \/ RaiseInTry("WebDriverException")
     \/ /\ top2 # "absent"
        /\ pc' = "paired2"
        /\ UNCHANGED <<err, failure>>
  /\ UNCHANGED rest2

\* one poll of WebDriverWait(driver2, 10).until(EC.visibility_of(top))
WaitPaired2 ==
  /\ pc = "paired2"
  /\ acts2' = IF polls = 0 THEN Append(acts2, "wait top") ELSE acts2
  /\ \E r \in SessionCall :
       IF r # "ok" \/ PollVisible(top2) \notin {"yes", "no"}
       THEN /\ RaiseInTry(IF r # "ok" THEN r ELSE PollVisible(top2))
            /\ waits' = [waits EXCEPT !["paired2"] = "error"]
            /\ polls' = 0
       ELSE IF PollVisible(top2) = "yes"
       THEN /\ pc' = AfterWait("paired2")
            /\ waits' = [waits EXCEPT !["paired2"] = "satisfied"]
            /\ polls' = 0
            /\ UNCHANGED <<err, failure>>
       ELSE IF polls + 1 >= MaxPolls
       THEN OnTimeout("paired2")
       ELSE /\ polls' = polls + 1
            /\ UNCHANGED <<pc, err, failure, waits>>
  /\ UNCHANGED <<fsvars, drvvars, acts1, uivars, code, typed, stdout, slept,
                 cmp>>

\* ---- lines 77-82: transfer and verification ------------------------------
\* driver1.find_element(By.ID, 'filepicker').send_keys(fpath)
FilePicker ==
  /\ pc = "filepicker"
  /\ acts1' = Append(acts1, "send_keys filepicker")
  /\ \E r \in ElementCall :
       IF r = "ok" THEN pc' = "sleep" /\ UNCHANGED <<err, failure>>
       ELSE RaiseInTry(r)
  /\ UNCHANGED rest1

\* the script without its settle delay
SleepSkipped ==
  /\ pc = "sleep"
  /\ pc' = "compare"
  /\ UNCHANGED <<err, failure, fsvars, drvvars, acts1, acts2, uivars, code,
                 typed, stdout, polls, waits, slept, cmp>>

\* time.sleep(3)
Sleep ==
  /\ pc = "sleep"
  /\ slept' = slept + 1
  /\ pc' = "compare"
  /\ UNCHANGED <<err, failure, fsvars, drvvars, acts1, acts2, uivars, code,
                 typed, stdout, polls, waits, cmp>>

\* the comparison made on an input file opened for writing, which empties it
CompareRewritesInput ==
  /\ pc = "compare"
  /\ infile' = RegFile(infile.mtime, <<>>)
  /\ IF outfile = NoFile
     THEN /\ RaiseInTry("FileNotFoundError")
          /\ UNCHANGED cmp
     ELSE IF FileCmp(infile', outfile)
     THEN /\ cmp' = "true"
          /\ pc' = "success"
          /\ UNCHANGED <<err, failure>>
     ELSE /\ cmp' = "false"
          /\ RaiseInTry("AssertionError")
  /\ UNCHANGED <<indir, outdir, outfile, writes, drvvars, acts1, acts2,
                 uivars, code, typed, stdout, polls, waits, slept>>

\* assert filecmp.cmp(fpath, path.join(outdir.name, "file.bin"))
\* os.stat of a file that is not there raises FileNotFoundError
Compare ==
  /\ pc = "compare"
  /\ IF outfile = NoFile
     THEN /\ RaiseInTry("FileNotFoundError")
          /\ UNCHANGED cmp
     ELSE IF FileCmp(infile, outfile)
     THEN /\ cmp' = "true"
          /\ pc' = "success"
          /\ UNCHANGED <<err, failure>>
     ELSE /\ cmp' = "false"
          /\ RaiseInTry("AssertionError")
  /\ UNCHANGED <<fsvars, drvvars, acts1, acts2, uivars, code, typed, stdout,
                 polls, waits, slept>>

Success == <<"success">>

\* print("success"); the try body ends and the finally clause runs
PrintSuccess ==
  /\ pc = "success"
  /\ stdout' = Append(stdout, Success)
  /\ pc' = "quit1"
  /\ UNCHANGED <<err, failure, fsvars, drvvars, acts1, acts2, uivars, code,
                 typed, polls, waits, slept, cmp>>

\* ---- lines 84-86: finally ------------------------------------------------
\* driver1.quit(); a quit that raises may or may not have ended the browser
Quit1 ==
  /\ pc = "quit1"
  /\ acts1' = Append(acts1, "quit")
  /\ \E r \in SessionCall :
       IF r = "ok"
       THEN /\ driver1' = "quit"
            /\ pc' = "quit2"
            /\ UNCHANGED <<err, failure>>
       ELSE /\ driver1' \in {"open", "quit"}
            /\ RaiseInFinally(r)
  /\ UNCHANGED <<fsvars, driver2, acts2, uivars, code, typed, stdout, polls,
                 waits, slept, cmp>>

\* driver2.quit(); then the propagating exception, if any, leaves the script
Quit2 ==
  /\ pc = "quit2"
  /\ acts2' = Append(acts2, "quit")
  /\ \E r \in SessionCall :
       IF r = "ok"
       THEN /\ driver2' = "quit"
            /\ pc' = "exit"
            /\ UNCHANGED <<err, failure>>
       ELSE /\ driver2' \in {"open", "quit"}
            /\ RaiseInFinally(r)
  /\ UNCHANGED <<fsvars, driver1, acts1, uivars, code, typed, stdout, polls,
                 waits, slept, cmp>>

\* ---- interpreter exit ----------------------------------------------------
\* a directory made with tempfile.mkdtemp(), which nothing removes
FinalizedKeeps(dir) == dir

\* what the finalizer of a TemporaryDirectory leaves of the directory
Finalized(dir) == IF dir = "exists" THEN "removed" ELSE dir

\* The script ends (normally or with the exception in err).  The finalizers
\* that tempfile.TemporaryDirectory() registered at lines 26 and 28 run at
\* interpreter exit and remove the directories with all they contain.
Exit ==
  /\ pc = "exit"
  /\ indir' = Finalized(indir)
  /\ outdir' = Finalized(outdir)
  /\ infile' = NoFile
  /\ outfile' = NoFile
  /\ pc' = "done"
  /\ UNCHANGED <<err, failure, writes, drvvars, acts1, acts2, uivars, code,
                 typed, stdout, polls, waits, slept, cmp>>

\* ---- the application under test ------------------------------------------
\* The pages and the browsers are outside the script and change on their own.
\* The script sees an element only when it reads it, and a later change
\* overwrites an earlier one, so each element is let change from the
\* statement before which the script may first read it until its last read.
scriptvars == <<pc, err, failure, drvvars, acts1, acts2, code, typed, stdout,
                polls, waits, slept, cmp>>

\* the page of a session exists once the session was told to load it
Loaded(driver, acts) == driver = "open" /\ Len(acts) > 0

\* a call was issued on a session
Issued(acts, call) == \E i \in 1 .. Len(acts) : acts[i] = call

\* the file selection of line 77 was made
Picked == Issued(acts1, "send_keys filepicker") /\ failure.at # "filepicker"

\* the initiator's page changes its status text (read at lines 58-61)
AppInfo ==
  /\ Loaded(driver1, acts1)
  /\ pc \in {"wait_info", "assert_info"}
  /\ info' \in (InfoTexts \cup {Absent}) \ {info}
  /\ UNCHANGED <<scriptvars, fsvars, magiccode, top1, top2>>

\* the initiator's page changes the code it shows (read at line 63)
AppCode ==
  /\ Loaded(driver1, acts1)
  /\ pc = "read_code"
  /\ magiccode' \in MagicCodes \ {magiccode}
  /\ UNCHANGED <<scriptvars, fsvars, info, top1, top2>>

\* the initiator's page shows, hides, adds or removes its marker (read at
\* lines 70-72)
AppTop1 ==
  /\ Loaded(driver1, acts1)
  /\ pc \in {"find_top1", "paired1"}
  /\ top1' \in {"absent", "hidden", "visible"} \ {top1}
  /\ UNCHANGED <<scriptvars, fsvars, info, magiccode, top2>>

\* the responder's page shows, hides, adds or removes its marker (read at
\* lines 73-75)
AppTop2 ==
  /\ Loaded(driver2, acts2)
  /\ pc \in {"find_top2", "paired2"}
  /\ top2' \in {"absent", "hidden", "visible"} \ {top2}
  /\ UNCHANGED <<scriptvars, fsvars, info, magiccode, top1>>

\* the responder's browser saves the received file as outdir/file.bin
\* (download.default_directory, lines 41-46) at some time after the file was
\* picked, while the browser runs; it saves one file
AppDownload ==
  /\ Loaded(driver2, acts2)
  /\ Picked
  /\ pc # "done"
  /\ outdir = "exists"
  /\ writes = 0
  /\ \E t \in Times, bytes \in Downloads(ArtifactSize) :
       outfile' = RegFile(t, bytes)
  /\ writes' = writes + 1
  /\ UNCHANGED <<scriptvars, uivars, indir, outdir, infile>>

\* ---- specification -------------------------------------------------------
Script ==
  \/ MakeIndir \/ MakeOutdir \/ WriteArtifact \/ MakeDriver1 \/ MakeDriver2
  \/ Get1 \/ Get2 \/ Dial1 \/ WaitInfo \/ AssertInfo \/ ReadCode
  \/ AssertCode \/ PrintCode \/ TypeCode \/ Dial2
  \/ FindTop1 \/ WaitPaired1 \/ FindTop2 \/ WaitPaired2
  \/ FilePicker \/ Sleep \/ Compare \/ PrintSuccess
  \/ Quit1 \/ Quit2 \/ Exit

App == AppInfo \/ AppCode \/ AppTop1 \/ AppTop2 \/ AppDownload

Next == Script \/ App

Spec == Init /\ [][Next]_vars

\* The script is the one control thread of the process: as long as it has a
\* statement to execute and every call it makes returns, it takes its next
\* step.  Nothing is assumed of the application.
FairSpec == Spec /\ WF_vars(Script)

\* ---- properties -----------------------------------------------------------
Printed(line) == \E i \in 1 .. Len(stdout) : stdout[i] = line

Teardown == {"quit1", "quit2", "exit", "done"}

\* the try body was left by an exception
BodyFailed == failure # NoErr /\ failure.at \notin {"quit1", "quit2"}

\* C1: when the run has returned control, no session that was opened is
\* still open.
C1_SessionsTerminated ==
  pc = "done" => driver1 # "open" /\ driver2 # "open"

\* C2: when the run has returned control, on a successful as on a failed
\* run, neither scratch directory exists any more and neither does a file
\* in them.
C2_ScratchRemoved ==
  pc = "done" =>
    /\ indir # "exists"
    /\ outdir # "exists"
    /\ infile = NoFile
    /\ outfile = NoFile

\* a failed run that had both directories, the artifact and a downloaded
\* file has returned control
C2_Witness ==
  /\ pc = "done"
  /\ indir = "removed"
  /\ outdir = "removed"
  /\ writes = 1
  /\ BodyFailed

\* C3: when a step of the try body failed with E, the exception the run ends
\* with is E, also when a termination call failed during teardown.
C3_OriginalFailureSurfaces ==
  pc = "done" /\ BodyFailed => err = failure

\* C4: whenever the comparison has let the run go on to report success, the
\* output file holds the bytes of the input artifact.
C4_SuccessMeansSameBytes ==
  (pc = "success" \/ (Printed(Success) /\ pc \in {"quit1", "quit2", "exit"}))
    => outfile # NoFile /\ outfile.bytes = infile.bytes

\* C5: when the wait for the waiting-for-peer status ran to its deadline,
\* the run fails with the timeout raised by that wait and no later step was
\* taken: no code read, nothing typed or clicked on the responder, no file
\* selection, no comparison, no success.
C5_InfoTimeoutStopsRun ==
  waits["info"] = "timeout" =>
    /\ pc \in Teardown
    /\ failure = Exc("TimeoutException", "wait_info")
    /\ pc = "done" => err # NoErr
    /\ code = NoCode
    /\ ~Issued(acts1, "value magiccode")
    /\ typed = NoCode
    /\ \A i \in 1 .. Len(acts2) : acts2[i] \in {"get", "quit"}
    /\ ~Issued(acts1, "send_keys filepicker")
    /\ cmp = "none"
    /\ ~Printed(Success)

\* a run whose first wait timed out has returned control
C5_Witness == pc = "done" /\ waits["info"] = "timeout"

\* C6 as claimed: at the moment the run fails on an empty code, no call of
\* any kind was made on the responder session.
C6_NoResponderCallAtAll ==
  pc = "quit1" /\ failure = Exc("AssertionError", "assert_code")
    => acts2 = <<>>

\* C6 as amended: an empty code read from the initiator makes the run fail
\* with the assertion of line 64 before anything is typed into or clicked on
\* the responder; the navigation of line 55 is the only call made on the
\* responder by then.
C6_EmptyCodeBeforeTyping ==
  code = <<>> =>
    /\ pc \in {"assert_code"} \cup Teardown
    /\ pc # "assert_code" => failure = Exc("AssertionError", "assert_code")
    /\ typed = NoCode
    /\ \A i \in 1 .. Len(acts2) : acts2[i] \in {"get", "quit"}
    /\ pc \in {"assert_code", "quit1"} => acts2 = <<"get">>
    /\ ~Printed(code)

\* the run has just failed on an empty code
C6_Witness ==
  /\ pc = "quit1"
  /\ code = <<>>
  /\ failure = Exc("AssertionError", "assert_code")

\* the run entered the stage of lines 70-75 and left it without having seen
\* both markers visible
LeftUnpaired ==
  /\ Issued(acts1, "find top")
  /\ pc \in Teardown
  /\ waits["paired1"] # "satisfied" \/ waits["paired2"] # "satisfied"

\* C7 as claimed: a run in which a marker was never seen visible (and no
\* driver call broke down) fails by a timeout of a "Paired" wait, and by no
\* other kind of error.
C7_UnpairedIsTimeout ==
  LeftUnpaired /\ failure.kind # "WebDriverException" =>
    /\ failure.kind = "TimeoutException"
    /\ failure.at \in {"paired1", "paired2"}
    /\ ~Printed(Success)

\* C7 as amended: a run in which either marker was not seen visible never
\* reports success and fails in the stage of lines 70-75; it fails by the
\* timeout of that actor's "Paired" wait exactly when the marker was found
\* and every poll up to the deadline saw it hidden, and by an element
\* lookup, stale reference or driver error when the marker element is
\* missing at the lookup, leaves the page during the wait, or a call fails.
C7_UnpairedNeverSucceeds ==
  /\ Printed(Success) \/ pc \in {"filepicker", "sleep", "compare", "success"}
       => waits["paired1"] = "satisfied" /\ waits["paired2"] = "satisfied"
  /\ LeftUnpaired =>
       /\ failure.at \in {"find_top1", "paired1", "find_top2", "paired2"}
       /\ ~Printed(Success)
       /\ cmp = "none"
  /\ \A w \in {"paired1", "paired2"} :
       /\ waits[w] = "timeout" <=>
            pc \in Teardown /\ failure = Exc("TimeoutException", w)
       /\ waits[w] = "error" <=>
            /\ pc \in Teardown
            /\ failure.at = w
            /\ failure.kind \in {"StaleElementReferenceException",
                                 "WebDriverException"}
  /\ failure.at \in {"find_top1", "find_top2"} =>
       failure.kind \in {"NoSuchElementException", "WebDriverException"}

\* the responder's marker stayed hidden up to the deadline and the run has
\* returned control
C7_Witness ==
  /\ pc = "done"
  /\ waits["paired1"] = "satisfied"
  /\ waits["paired2"] = "timeout"
  /\ top2 = "hidden"

\* C8: the file selection on the initiator is made only after the wait on
\* the initiator's marker and the wait on the responder's marker have both
\* been satisfied.
C8_TransferAfterBothPaired ==
  Issued(acts1, "send_keys filepicker") =>
    waits["paired1"] = "satisfied" /\ waits["paired2"] = "satisfied"

\* the file selection was made
C8_Witness == Picked /\ pc = "sleep"

\* C9: a run that has returned control either printed the success marker
\* and ended without an exception, or ended with an exception and did not
\* print the success marker.
C9_OneTerminalIndication ==
  pc = "done" =>
    \/ Printed(Success) /\ err = NoErr
    \/ ~Printed(Success) /\ err # NoErr

\* C10: the comparison of line 80 ends in one of three ways, decided by the
\* output file at that moment: missing, the run fails with
\* FileNotFoundError; there but different from the input, it fails with the
\* assertion; only when there and equal does the run go on to success.
C10_ThreeOutcomes ==
  [][pc = "compare" /\ pc' # "compare" =>
       /\ outfile = NoFile =>
            failure' = Exc("FileNotFoundError", "compare")
       /\ outfile # NoFile /\ outfile.bytes # infile.bytes =>
            failure' = Exc("AssertionError", "compare")
       /\ pc' = "success" =>
            outfile # NoFile /\ outfile.bytes = infile.bytes]_vars

\* C11: when every call returns, every run comes to its end, whatever the
\* pages show: each wait ends satisfied or with a timeout; a run that
\* entered the try statement has entered the finally clause by then.
C11_RunTerminates ==
  <>(/\ pc = "done"
     /\ Len(acts1) > 0 => Issued(acts1, "quit"))

\* a run whose wait on the initiator's marker ran to its deadline has
\* returned control
C11_Witness ==
  /\ pc = "done"
  /\ waits["paired1"] = "timeout"
  /\ Issued(acts1, "quit")

\* position of the first issue of a call on a session, 0 when never issued
FirstAt(acts, call) ==
  IF Issued(acts, call)
  THEN CHOOSE i \in 1 .. Len(acts) :
         /\ acts[i] = call
         /\ \A j \in 1 .. i - 1 : acts[j] # call
  ELSE 0

\* C12: the code is read from the initiator only after the wait for the
\* waiting-for-peer status was satisfied, and the responder's dial is
\* clicked only after the code was entered into the responder.
C12_CodeReadAndEnteredInOrder ==
  /\ Issued(acts1, "value magiccode") =>
       /\ waits["info"] = "satisfied"
       /\ FirstAt(acts1, "wait info") < FirstAt(acts1, "value magiccode")
  /\ code # NoCode => Issued(acts1, "value magiccode")
  /\ Issued(acts2, "click dial") =>
       /\ typed # NoCode
       /\ typed = code
       /\ Issued(acts2, "send_keys magiccode")
       /\ FirstAt(acts2, "send_keys magiccode") < FirstAt(acts2, "click dial")

\* the responder's dial was clicked with the code entered
C12_Witness ==
  /\ pc = "find_top1"
  /\ Issued(acts2, "click dial")
  /\ typed = code

\* the protocol states of the two actors, in the order of their paths
InitiatorPath ==
  <<"Idle", "Navigated", "DialRequested", "AwaitingPeer", "Paired">>
ResponderPath ==
  <<"Idle", "Navigated", "CodeEntered", "DialRequested", "Paired">>

\* how far the initiator has come: line 54 returned, line 57 returned, the
\* wait of lines 58-60 was satisfied, the wait of lines 70-72 was satisfied
InitiatorRank ==
  IF waits["paired1"] = "satisfied" THEN 4
  ELSE IF waits["info"] = "satisfied" THEN 3
  ELSE IF Issued(acts1, "click dial") /\ failure.at # "dial1" THEN 2
  ELSE IF Issued(acts1, "get") /\ failure.at # "get1" THEN 1
  ELSE 0

\* how far the responder has come: line 55 returned, line 67 returned, line
\* 68 returned, the wait of lines 73-75 was satisfied
ResponderRank ==
  IF waits["paired2"] = "satisfied" THEN 4
  ELSE IF Issued(acts2, "click dial") /\ failure.at # "dial2" THEN 3
  ELSE IF typed # NoCode THEN 2
  ELSE IF Issued(acts2, "get") /\ failure.at # "get2" THEN 1
  ELSE 0

InitiatorState == InitiatorPath[InitiatorRank + 1]
ResponderState == ResponderPath[ResponderRank + 1]

\* C13: each actor's protocol state stays where it is or advances by one
\* state of its path in every step, never skipping a state or going back,
\* and the responder is beyond Navigated only when the initiator has come
\* to AwaitingPeer.
C13_ActorsFollowTheirPaths ==
  /\ [][/\ InitiatorRank' \in {InitiatorRank, InitiatorRank + 1}
        /\ ResponderRank' \in {ResponderRank, ResponderRank + 1}]_vars
  /\ [](ResponderState \in {"CodeEntered", "DialRequested", "Paired"}
          => InitiatorState \in {"AwaitingPeer", "Paired"})

\* both actors have come to the end of their paths
C13_Witness == InitiatorState = "Paired" /\ ResponderState = "Paired"

\* no call occurs twice in the calls issued on a session
NoRepeat(acts) ==
  \A i, j \in 1 .. Len(acts) : acts[i] = acts[j] => i = j

\* what may be issued on a session once a step has failed
OnlyQuit(acts, actsNext) == actsNext \in {acts, Append(acts, "quit")}

\* the comparison of line 80 has been made
Compared == cmp # "none" \/ failure.at = "compare"

\* C14: once a step has failed the script is in its teardown and does
\* nothing more than issue the quit calls: no call, print, sleep or
\* comparison follows; and no navigation, click, code entry, wait, file
\* selection, sleep or comparison is made twice in a run.
C14_NoRetry ==
  /\ [](failure # NoErr => pc \in Teardown)
  /\ [](NoRepeat(acts1) /\ NoRepeat(acts2) /\ slept <= 1)
  /\ [][failure # NoErr =>
          /\ OnlyQuit(acts1, acts1')
          /\ OnlyQuit(acts2, acts2')
          /\ UNCHANGED <<code, typed, stdout, slept, cmp, waits, polls>>]_vars
  /\ [][Compared /\ pc # "compare" => pc' # "compare"]_vars
  /\ [][slept = 1 /\ pc # "sleep" => pc' # "sleep"]_vars

\* a run failed in the middle of the protocol and has issued both quit calls
C14_Witness ==
  /\ failure.at = "dial2"
  /\ pc = "exit"
  /\ Issued(acts1, "quit") /\ Issued(acts2, "quit")

\* C15: a non-empty code read from the initiator has been printed before
\* anything is sent to the responder's code input and before either marker
\* wait begins, so it is on the output of every run that fails later or
\* succeeds; an empty code is never printed, and the code is the first line
\* printed after the names of the two directories.
C15_CodePrintedAsSoonAsKnown ==
  /\ code # NoCode /\ code # <<>> /\ pc \notin {"assert_code", "print_code"}
       => Printed(code) /\ stdout[1] = code
  /\ Issued(acts2, "send_keys magiccode") => Printed(code)
  /\ Issued(acts1, "find top") \/ Issued(acts2, "find top") => Printed(code)
  /\ Printed(Success) => Len(stdout) = 2 /\ stdout[1] = code
  /\ ~Printed(<<>>)
  /\ ~Printed(NoCode)

\* the marker wait on the responder timed out with the code on the output
C15_Witness ==
  /\ waits["paired2"] = "timeout"
  /\ stdout = <<code>>
  /\ code # <<>>

\* C16: the script itself sleeps at most once in a run and exactly once in
\* a run that succeeds, after the file selection and before the comparison;
\* the code is read behind a satisfied wait on the status text and the file
\* is selected behind two satisfied waits on the markers, with no sleep of
\* the script before them.
C16_OneSettleDelay ==
  /\ slept <= 1
  /\ Printed(Success) => slept = 1
  /\ slept = 1 => Picked /\ pc \notin {"filepicker", "sleep"}
  /\ Compared => slept = 1
  /\ pc \in {"compare", "success"} => slept = 1
  /\ code # NoCode => waits["info"] = "satisfied"
  /\ pc = "sleep" =>
       /\ slept = 0
       /\ waits = [w \in {"info", "paired1", "paired2"} |-> "satisfied"]

\* the settle delay has passed and the comparison is about to be made
C16_Witness == pc = "compare" /\ slept = 1 /\ ~Compared

\* C17: from the statement after the write of the artifact until the
\* directories are removed at exit, no step changes the input file; the
\* output file changes only in a step of the responder's browser, in which
\* the script does nothing, and the browser saves it once.
C17_FilesNotWrittenByScript ==
  /\ [][pc # "artifact" /\ pc' # "done" => infile' = infile]_vars
  /\ [][outfile' # outfile /\ pc' # "done" =>
          /\ UNCHANGED scriptvars
          /\ writes = 0 /\ writes' = 1]_vars
  /\ [](writes <= 1)
  /\ [](pc \notin {"indir", "outdir", "artifact", "exit", "done"}
          => infile # NoFile /\ Len(infile.bytes) = ArtifactSize)

\* the browser has saved the output file and the script has compared it
C17_Witness ==
  /\ writes = 1
  /\ outfile # NoFile
  /\ cmp = "false"
  /\ pc = "quit1"

\* C18: what is sent to the responder's code input is the script's variable
\* code, which holds the value the initiator's code control had when line
\* 63 read it, and is not empty; so a wait on a marker can time out only
\* with a non-empty code entered.
C18_TypedIsTheCodeRead ==
  /\ [][code' # code => pc = "read_code" /\ code' = magiccode]_vars
  /\ [][typed' # typed => pc = "type_code" /\ typed' = code]_vars
  /\ [](Issued(acts2, "send_keys magiccode") =>
          /\ Issued(acts1, "value magiccode")
          /\ code \in MagicCodes
          /\ Len(code) > 0)
  /\ [](typed # NoCode => typed = code /\ Len(typed) > 0)
  /\ [](\A w \in {"paired1", "paired2"} :
          waits[w] = "timeout" => typed = code /\ Len(typed) > 0)

\* the wait on the initiator's marker timed out after the code was entered
C18_Witness ==
  /\ pc = "quit1"
  /\ waits["paired1"] = "timeout"
  /\ typed = <<"7", "word">>

\* the status text begins with "Waiting for the other"
BeginsWaitingForOther(text) ==
  /\ Len(text) >= 4
  /\ SubSeq(text, 1, 4) = <<"Waiting", "for", "the", "other">>

\* C19: after the wait on the status text was satisfied the text is read
\* again, and the script goes on to read the code only if the text read
\* then begins with "Waiting for the other".  A text that does not (the
\* wait was satisfied by a text that only contains "Waiting for", or the
\* text changed in between) fails the assertion of line 61, which is not a
\* timeout; after that failure no code is read and nothing is entered on
\* the responder.
C19_SecondReadingDecides ==
  /\ [][pc = "assert_info" /\ pc' # "assert_info" =>
          /\ waits["info"] = "satisfied"
          /\ acts1' = Append(acts1, "text info")
          /\ pc' = "read_code" => BeginsWaitingForOther(info)
          /\ info # Absent /\ ~BeginsWaitingForOther(info)
               /\ failure'.kind # "WebDriverException"
               => failure' = Exc("AssertionError", "assert_info")]_vars
  /\ [](Issued(acts1, "value magiccode") =>
          /\ Issued(acts1, "text info")
          /\ FirstAt(acts1, "wait info") < FirstAt(acts1, "text info")
          /\ FirstAt(acts1, "text info") < FirstAt(acts1, "value magiccode"))
  /\ [](failure.at = "assert_info" =>
          /\ failure.kind # "TimeoutException"
          /\ waits["info"] = "satisfied"
          /\ code = NoCode
          /\ typed = NoCode
          /\ ~Issued(acts1, "value magiccode")
          /\ ~Issued(acts2, "send_keys magiccode"))

\* the wait was satisfied and the second reading gave a text that contains
\* "Waiting for" without beginning with "Waiting for the other"
C19_Witness ==
  /\ failure = Exc("AssertionError", "assert_info")
  /\ info = <<"Waiting", "for", "signalling">>
  /\ pc = "quit1"

====
